---- MODULE Spec2Model ----
(***************************************************************************)
(* A model of src/base/model.py: the batch sampler, the relative-position  *)
(* attention head and multi-head attention, the encoder/decoder layers,    *)
(* the Transformer (construction, forward, generate), estimate_loss and    *)
(* the module-level training loop.                                         *)
(*                                                                         *)
(* Tensors are modelled by their shapes (sequences of naturals) following  *)
(* torch's broadcasting and matmul rules; attention scores are modelled    *)
(* per entry as finite or -inf. A Python exception is a record             *)
(* [type, line] naming the source line that raises.                        *)
(*                                                                         *)
(* Four specifications share the variables:                                *)
(*   Spec          the script, lines 257-284 (construction, training loop) *)
(*   SpecBatch     get_batch called on the two partitions                  *)
(*   SpecAttention MultiHeadAttention construction, then a head or the     *)
(*                 multi-head forward                                      *)
(*   SpecModel     Transformer() then one forward or one generate call     *)
(***************************************************************************)
EXTENDS Integers, Sequences, FiniteSets, TLC

\* ---------------------------------------------------------------- bounds
MaxLayers == 2
MaxIters == 4
MaxEvalInterval == 3
MaxEvalIters == 2
MaxBatchSize == 2
MaxBlockSize == 2
MaxDataLen == 12
MaxVocab == 3
MaxDModel == 3
MaxHead == 2
MaxNewTokens == 3
MaxSeedLen == 3

VARIABLES cfg, req, pc, exc, model, ret,
          mode, iter, steps, train_losses, val_losses,
          split_i, k, out, nfwd, batch, loss, grads, params,
          idx, todo

vars == <<cfg, req, pc, exc, model, ret,
          mode, iter, steps, train_losses, val_losses,
          split_i, k, out, nfwd, batch, loss, grads, params,
          idx, todo>>

loopVars == <<mode, iter, steps, train_losses, val_losses,
              split_i, k, out, nfwd, batch, loss, grads, params>>

genVars == <<idx, todo>>

\* ------------------------------------------------------- Python values
\* An exception: its type, the line that raises it and, once it propagates
\* out of an action, the call sites it passed through (the traceback).
NoExc == [type |-> "none", line |-> 0, via |-> <<>>]

Exc(type, line) == [type |-> type, line |-> line]

Traceback(e, via) == [type |-> e.type, line |-> e.line, via |-> via]

Min(a, b) == IF a < b THEN a ELSE b

Max(a, b) == IF a < b THEN b ELSE a

\* ------------------------------------------------------ tensor shapes
\* A shape padded on the left with 1s to n dimensions (broadcast alignment).
PadShape(s, n) ==
  [i \in 1..n |-> IF i <= n - Len(s) THEN 1 ELSE s[i - (n - Len(s))]]

\* torch broadcasting: aligned from the trailing dimension, two sizes are
\* compatible when equal or when one of them is 1.
Broadcastable(a, b) ==
  LET n == Max(Len(a), Len(b))
      pa == PadShape(a, n)
      pb == PadShape(b, n)
  IN \A i \in 1..n : pa[i] = pb[i] \/ pa[i] = 1 \/ pb[i] = 1

BroadcastShape(a, b) ==
  LET n == Max(Len(a), Len(b))
      pa == PadShape(a, n)
      pb == PadShape(b, n)
  IN [i \in 1..n |-> IF pa[i] = 1 THEN pb[i] ELSE pa[i]]

BatchDims(s) == SubSeq(s, 1, Len(s) - 2)

\* torch.matmul of two tensors of at least 2 dimensions: the batch dimensions
\* broadcast, the inner sizes must agree.
MatMulOK(a, b) ==
  /\ Len(a) >= 2
  /\ Len(b) >= 2
  /\ a[Len(a)] = b[Len(b) - 1]
  /\ Broadcastable(BatchDims(a), BatchDims(b))

MatMulShape(a, b) ==
  BroadcastShape(BatchDims(a), BatchDims(b)) \o <<a[Len(a) - 1], b[Len(b)]>>

\* x.transpose(d1, d2), dimensions counted from 1 here.
Transpose(s, d1, d2) ==
  [i \in 1..Len(s) |-> IF i = d1 THEN s[d2] ELSE IF i = d2 THEN s[d1] ELSE s[i]]

\* nn.Linear(in_features, out_features) applied to a tensor of shape s.
LinearOK(s, in_features) == Len(s) >= 1 /\ s[Len(s)] = in_features

LinearShape(s, out_features) == SubSeq(s, 1, Len(s) - 1) \o <<out_features>>

\* nn.LayerNorm(d) normalises the last dimension, which must be d.
LayerNormOK(s, d) == Len(s) >= 1 /\ s[Len(s)] = d

RECURSIVE SeqMax(_)
SeqMax(s) == IF s = <<>> THEN 0 ELSE Max(Head(s), SeqMax(Tail(s)))

\* All index tuples (0-based) of a tensor of shape s.
Indices(s) ==
  {ix \in [1..Len(s) -> 0..SeqMax(s)] : \A d \in 1..Len(s) : ix[d] < s[d]}

\* ------------------------------------------------------ AttentionHead
\* The upper triangle instead (torch.triu).
Tril_Upper(n) == [r \in 0..(n - 1), c \in 0..(n - 1) |-> IF c >= r THEN 1 ELSE 0]

\* torch.tril(torch.ones(n, n)): the lower triangle, diagonal included.
Tril(n) == [r \in 0..(n - 1), c \in 0..(n - 1) |-> IF c <= r THEN 1 ELSE 0]

AttentionHead_init(d_model, head_size, block_size) ==
  [d_model |-> d_model,
   head_size |-> head_size,
   tril |-> Tril(block_size),
   tril_size |-> block_size,
   max_relative_pos |-> block_size,
   n_relative |-> 2 * block_size + 1]

\* torch.clamp(i - j, -max_relative_pos, max_relative_pos) + max_relative_pos
RelativeIndex(i, j, mrp) == Max(0 - mrp, Min(mrp, i - j)) + mrp

\* The mask self.tril[:T, :T] == 0 read at the weights' index ix: a
\* (Tm, Tm) tensor broadcast over the leading dimensions of the weights.
MaskedAt(head, T, ix) ==
  LET Tm == Min(T, head.tril_size)
      n == Len(ix)
      r == IF Tm = 1 THEN 0 ELSE ix[n - 1]
      c == IF Tm = 1 THEN 0 ELSE ix[n]
  IN head.tril[r, c] = 0

\* F.softmax(weights, dim=-1) per entry: "zero" where the score is -inf,
\* "pos" where it is finite, "nan" when the whole row is -inf.
Softmax(wshape, masked) ==
  [ix \in Indices(wshape) |->
     IF ix \notin masked THEN "pos"
     ELSE IF \A c \in 0..(wshape[Len(wshape)] - 1) :
               [ix EXCEPT ![Len(wshape)] = c] \in masked
          THEN "nan" ELSE "zero"]

\* nn.Dropout in training mode zeroes an entry or rescales it; in
\* evaluation mode it is the identity.
Dropout(probs, training) ==
  [ix \in DOMAIN probs |->
     IF training /\ probs[ix] = "pos" THEN "zero_or_scaled" ELSE probs[ix]]

Raised(type, line) == [status |-> "raised", exc |-> Exc(type, line)]

\* Lines 103-108: softmax, dropout, value, out = weights @ value.
HeadOut(weights, value, masked, probs, training) ==
  IF ~MatMulOK(weights, value) THEN Raised("RuntimeError", 107)
  ELSE [status |-> "returned",
        shape |-> MatMulShape(weights, value),
        weights |-> weights,
        masked |-> masked,
        probs |-> probs,
        dropped |-> Dropout(probs, training)]

\* Line 103 on the scores with the entries `masked` at -inf.
HeadSoftmax(weights, value, masked, training) ==
  HeadOut(weights, value, masked, Softmax(weights, masked), training)

\* Lines 100-101: if mask is True, masked_fill with self.tril[:T, :T] == 0,
\* a (Tm, Tm) mask that must broadcast to the weights' shape.
HeadMask(head, T, Tm, weights, value, mask, training) ==
  IF mask /\ ~Broadcastable(weights, <<Tm, Tm>>)
    THEN Raised("RuntimeError", 101)
  ELSE IF mask /\ BroadcastShape(weights, <<Tm, Tm>>) # weights
    THEN Raised("RuntimeError", 101)
  ELSE HeadSoftmax(weights, value,
         IF mask THEN {ix \in Indices(weights) : MaskedAt(head, T, ix)} ELSE {},
         training)

\* Line 98: weights = query_with_pos @ key_with_pos.transpose(-2, -1) / sqrt
HeadWeights(head, T, query_with_pos, key_t, value, mask, training) ==
  IF ~MatMulOK(query_with_pos, key_t) THEN Raised("RuntimeError", 98)
  ELSE HeadMask(head, T, Min(T, head.tril_size),
         MatMulShape(query_with_pos, key_t), value, mask, training)

\* Lines 94-95: query + relative_embeddings, key + its transpose(1, 2).
HeadRelative(head, T, qkv, relative_embeddings, rel_t, mask, training) ==
  IF ~Broadcastable(qkv, relative_embeddings) THEN Raised("RuntimeError", 94)
  ELSE IF ~Broadcastable(qkv, rel_t) THEN Raised("RuntimeError", 95)
  ELSE HeadWeights(head, T,
         BroadcastShape(qkv, relative_embeddings),
         Transpose(BroadcastShape(qkv, rel_t), Len(rel_t) - 1, Len(rel_t)),
         qkv, mask, training)

\* Lines 89-93: the (B, T, T) relative positions and their embeddings.
HeadPositions(head, B, T, qkv, relative_positions, mask, training) ==
  IF \E i, j \in 0..(T - 1) :
       RelativeIndex(i, j, head.max_relative_pos) \notin 0..(head.n_relative - 1)
    THEN Raised("IndexError", 93)
  ELSE HeadRelative(head, T, qkv,
         relative_positions \o <<head.head_size>>,
         Transpose(relative_positions \o <<head.head_size>>, 2, 3),
         mask, training)

\* AttentionHead.forward(x, mask) on a tensor of shape x. key, query and
\* value all have the shape of x with head_size last.
AttentionHead_forward(head, x, mask, training) ==
  IF Len(x) # 3 THEN Raised("ValueError", 84)
  ELSE IF ~LinearOK(x, head.d_model) THEN Raised("RuntimeError", 85)
  ELSE HeadPositions(head, x[1], x[2], LinearShape(x, head.head_size),
         BroadcastShape(<<x[1], x[2], 1>>, <<x[1], 1, x[2]>>), mask, training)

\* ------------------------------------------------- MultiHeadAttention
\* MultiHeadAttention(**kw) called at source line `site`. Python binds the
\* keyword arguments to (d_model, n_head, dropout, block_size), none of
\* which has a default: a missing one is a TypeError at the call.
MultiHeadAttention_init(kw, site) ==
  IF ~({"d_model", "n_head", "dropout", "block_size"} \subseteq DOMAIN kw)
    THEN Raised("TypeError", site)
  ELSE IF kw.n_head = 0 THEN Raised("ZeroDivisionError", 112)
  ELSE [status |-> "returned",
        obj |-> [heads |-> [h \in 1..kw.n_head |->
                              AttentionHead_init(kw.d_model,
                                kw.d_model \div kw.n_head, kw.block_size)],
                 head_size |-> kw.d_model \div kw.n_head,
                 n_head |-> kw.n_head,
                 d_model |-> kw.d_model,
                 proj_in |-> kw.n_head * (kw.d_model \div kw.n_head),
                 proj_out |-> kw.d_model]]

RECURSIVE SumLast(_)
SumLast(shapes) ==
  IF shapes = <<>> THEN 0
  ELSE Head(shapes)[Len(Head(shapes))] + SumLast(Tail(shapes))

\* torch.cat(shapes, dim=-1): all dimensions but the last must agree.
CatOK(shapes) ==
  /\ Len(shapes) >= 1
  /\ \A i \in 1..Len(shapes) :
       /\ Len(shapes[i]) = Len(shapes[1])
       /\ Len(shapes[i]) >= 1
       /\ SubSeq(shapes[i], 1, Len(shapes[i]) - 1)
            = SubSeq(shapes[1], 1, Len(shapes[1]) - 1)

CatShape(shapes) ==
  SubSeq(shapes[1], 1, Len(shapes[1]) - 1) \o <<SumLast(shapes)>>

\* Line 120: out = self.dropout(self.proj(out)) on the concatenation.
MHAProj(mha, cat) ==
  IF ~LinearOK(cat, mha.proj_in) THEN Raised("RuntimeError", 120)
  ELSE [status |-> "returned", shape |-> LinearShape(cat, mha.proj_out),
        cat |-> cat]

\* Line 119: torch.cat of the heads' outputs; the first head that raises
\* ends the list comprehension.
MHACat(mha, outs, bad) ==
  IF bad # {} THEN outs[CHOOSE h \in bad : \A g \in bad : h <= g]
  ELSE IF ~CatOK([h \in 1..mha.n_head |-> outs[h].shape])
    THEN Raised("RuntimeError", 119)
  ELSE MHAProj(mha, CatShape([h \in 1..mha.n_head |-> outs[h].shape]))

MHAHeads(mha, outs) ==
  MHACat(mha, outs, {h \in 1..mha.n_head : outs[h].status = "raised"})

MultiHeadAttention_forward(mha, x, mask, training) ==
  MHAHeads(mha, [h \in 1..mha.n_head |->
                   AttentionHead_forward(mha.heads[h], x, mask, training)])

\* ------------------------------------------------------- FeedForward
\* Linear(d_model, 4*d_model), GELU, Linear(4*d_model, d_model), Dropout.
FeedForward_forward(d_model, x, site) ==
  IF ~LinearOK(x, d_model) THEN Raised("RuntimeError", site)
  ELSE [status |-> "returned",
        shape |-> LinearShape(LinearShape(x, 4 * d_model), d_model)]

\* ------------------------------------------------------------- Block
\* Block.__init__ builds its attention without the block_size argument.
Block_init(d_model, n_head) ==
  MultiHeadAttention_init(
    [n_head |-> n_head, d_model |-> d_model, dropout |-> "0.2"], 139)

\* ---------------------------------------------------- EncoderNetwork
\* A layer object around the attention its constructor built.
LayerObj(att, d_model) ==
  IF att.status = "raised" THEN att
  ELSE [status |-> "returned", obj |-> [s_att |-> att.obj, d_model |-> d_model]]

EncoderNetwork_init(d_model, n_head, block_size) ==
  LayerObj(MultiHeadAttention_init(
             [n_head |-> n_head, d_model |-> d_model, dropout |-> "0.2",
              block_size |-> block_size], 155), d_model)

\* Lines 167-170: src = norm2(src + dropout(src2)); return src
EncoderFfwd(layer, src, ff) ==
  IF ff.status = "raised" THEN ff
  ELSE IF ~Broadcastable(src, ff.shape) THEN Raised("RuntimeError", 167)
  ELSE IF ~LayerNormOK(BroadcastShape(src, ff.shape), layer.d_model)
    THEN Raised("RuntimeError", 168)
  ELSE [status |-> "returned", shape |-> BroadcastShape(src, ff.shape)]

\* Lines 164-166: src = norm1(src); src2 = ffwd(src)
EncoderNorm1(layer, src) ==
  IF ~LayerNormOK(src, layer.d_model) THEN Raised("RuntimeError", 164)
  ELSE EncoderFfwd(layer, src, FeedForward_forward(layer.d_model, src, 166))

\* Line 163: src = src + dropout(src2)
EncoderAdd(layer, src, src2) ==
  IF src2.status = "raised" THEN src2
  ELSE IF ~Broadcastable(src, src2.shape) THEN Raised("RuntimeError", 163)
  ELSE EncoderNorm1(layer, BroadcastShape(src, src2.shape))

EncoderNetwork_forward(layer, src, training) ==
  EncoderAdd(layer, src,
    MultiHeadAttention_forward(layer.s_att, src, FALSE, training))

\* layer(*args) on an EncoderNetwork at source line `site`: forward(self, src)
\* takes exactly one positional argument.
EncoderNetwork_call(layer, args, training, site) ==
  IF Len(args) # 1 THEN Raised("TypeError", site)
  ELSE EncoderNetwork_forward(layer, args[1], training)

\* ---------------------------------------------------- DecoderNetwork
DecoderNetwork_init(d_model, n_head, block_size) ==
  LayerObj(MultiHeadAttention_init(
             [n_head |-> n_head, d_model |-> d_model, dropout |-> "0.2",
              block_size |-> block_size], 175), d_model)

\* x = x + dropout(x2); x = x + norm1(x)   (lines 183-184 and 187-188)
DecoderAdd(layer, x, x2, l_add, l_norm) ==
  IF x2.status = "raised" THEN x2
  ELSE IF ~Broadcastable(x, x2.shape) THEN Raised("RuntimeError", l_add)
  ELSE IF ~LayerNormOK(BroadcastShape(x, x2.shape), layer.d_model)
    THEN Raised("RuntimeError", l_norm)
  ELSE [status |-> "returned", shape |-> BroadcastShape(x, x2.shape)]

\* Lines 192-195: src_f = norm2(src_f + dropout(src_f2)); return src_f
DecoderFfwd(layer, src_f, ff) ==
  IF ff.status = "raised" THEN ff
  ELSE IF ~Broadcastable(src_f, ff.shape) THEN Raised("RuntimeError", 192)
  ELSE [status |-> "returned", shape |-> BroadcastShape(src_f, ff.shape)]

\* Line 191: src_f2 = ffwd(norm2(src_f))
DecoderNorm2(layer, src_f) ==
  IF ~LayerNormOK(src_f, layer.d_model) THEN Raised("RuntimeError", 191)
  ELSE DecoderFfwd(layer, src_f, FeedForward_forward(layer.d_model, src_f, 191))

\* Line 190: src_f = src + trg, of the two branches' results s and t.
DecoderSum(layer, s, t) ==
  IF s.status = "raised" THEN s
  ELSE IF t.status = "raised" THEN t
  ELSE IF ~Broadcastable(s.shape, t.shape) THEN Raised("RuntimeError", 190)
  ELSE DecoderNorm2(layer, BroadcastShape(s.shape, t.shape))

\* The masked branch on src (lines 182-184), the unmasked one on trg
\* (lines 186-188), both through the same s_att and norm1.
DecoderNetwork_forward(layer, src, trg, training) ==
  DecoderSum(layer,
    DecoderAdd(layer, src,
      MultiHeadAttention_forward(layer.s_att, src, TRUE, training), 183, 184),
    DecoderAdd(layer, trg,
      MultiHeadAttention_forward(layer.s_att, trg, FALSE, training), 187, 188))

\* layer(*args) on a DecoderNetwork: forward(self, src, trg).
DecoderNetwork_call(layer, args, training, site) ==
  IF Len(args) # 2 THEN Raised("TypeError", site)
  ELSE DecoderNetwork_forward(layer, args[1], args[2], training)

\* ------------------------------------------------------- Transformer
\* The first constructor result in the list rs that raised, if any.
FirstRaised(rs, bad) ==
  IF bad = {} THEN [status |-> "returned"]
  ELSE rs[CHOOSE i \in bad : \A j \in bad : i <= j]

Constructed(rs) ==
  FirstRaised(rs, {i \in 1..Len(rs) : rs[i].status = "raised"})

\* Lines 203-209, once the Blocks of line 202 are built.
TransformerLayers(c, block, enc, dec) ==
  IF block.status = "raised" THEN block
  ELSE IF enc.status = "raised" THEN enc
  ELSE IF dec.status = "raised" THEN dec
  ELSE [status |-> "returned",
        obj |-> [enc_layer |-> [i \in 1..c.n_layers |->
                   EncoderNetwork_init(c.d_model, c.n_head, c.block_size).obj],
                 dec_layer |-> [i \in 1..c.n_layers |->
                   DecoderNetwork_init(c.d_model, c.n_head, c.block_size).obj],
                 d_model |-> c.d_model,
                 vocab_size |-> c.vocab_size,
                 block_size |-> c.block_size]]

\* Transformer.__init__ with the module's hyperparameters c: the embeddings,
\* n_layers Blocks, n_layers encoder layers, n_layers decoder layers, the
\* final norm and projection. A new nn.Module is in training mode.
Transformer_init(c) ==
  TransformerLayers(c,
    Constructed([i \in 1..c.n_layers |-> Block_init(c.d_model, c.n_head)]),
    Constructed([i \in 1..c.n_layers |->
                   EncoderNetwork_init(c.d_model, c.n_head, c.block_size)]),
    Constructed([i \in 1..c.n_layers |->
                   DecoderNetwork_init(c.d_model, c.n_head, c.block_size)]))

None == "None"

\* The running state of forward after a layer returned r: x rebound and
\* the layer added to the trace, or the exception.
AfterLayer(st, r, name, i) ==
  IF r.status = "raised" THEN r @@ [trace |-> st.trace]
  ELSE [status |-> "running", shape |-> r.shape,
        trace |-> Append(st.trace, <<name, i>>)]

\* for layer in self.enc_layer: x = layer(x, None), from layer i on. st is
\* the running [status, shape, trace].
RECURSIVE EncoderStack(_, _, _, _)
EncoderStack(m, i, st, training) ==
  IF st.status = "raised" \/ i > Len(m.enc_layer) THEN st
  ELSE EncoderStack(m, i + 1,
         AfterLayer(st,
           EncoderNetwork_call(m.enc_layer[i], <<st.shape, None>>, training, 227),
           "enc_layer", i),
         training)

\* for layer in self.dec_layer: x = layer(x, x), from layer i on.
RECURSIVE DecoderStack(_, _, _, _)
DecoderStack(m, i, st, training) ==
  IF st.status = "raised" \/ i > Len(m.dec_layer) THEN st
  ELSE DecoderStack(m, i + 1,
         AfterLayer(st,
           DecoderNetwork_call(m.dec_layer[i], <<st.shape, st.shape>>, training, 230),
           "dec_layer", i),
         training)

\* Lines 235-244: loss is None without targets, else the cross entropy of
\* the logits viewed as (B*T, C).
ForwardLoss(logits, has_targets, trace) ==
  IF ~has_targets
    THEN [status |-> "returned", logits |-> logits, loss |-> None,
          trace |-> trace]
  ELSE IF Len(logits) # 3 THEN Raised("ValueError", 239) @@ [trace |-> trace]
  ELSE [status |-> "returned",
        logits |-> <<logits[1] * logits[2], logits[3]>>,
        loss |-> "scalar",
        trace |-> Append(trace, <<"cross_entropy", 0>>)]

\* Lines 232-233: x = norm_final(x); logits = linear_final(x)
ForwardHead(m, d, has_targets) ==
  IF d.status = "raised" THEN d
  ELSE IF ~LayerNormOK(d.shape, m.d_model)
    THEN Raised("RuntimeError", 232) @@ [trace |-> d.trace]
  ELSE ForwardLoss(LinearShape(d.shape, m.vocab_size), has_targets,
         d.trace \o <<<<"norm_final", 0>>, <<"linear_final", 0>>>>)

\* Transformer.forward(idx, targets): idx_shape is the shape of the token
\* ids, has_targets whether targets were passed. Returns the logits' shape,
\* the loss ("None" or "scalar") and the stages run, in order.
Transformer_forward(m, idx_shape, has_targets, training) ==
  IF Len(idx_shape) # 2 THEN Raised("ValueError", 220) @@ [trace |-> <<>>]
  ELSE IF idx_shape[2] > m.block_size
    THEN Raised("IndexError", 223) @@ [trace |-> <<>>]
  ELSE ForwardHead(m,
         DecoderStack(m, 1,
           EncoderStack(m, 1,
             [status |-> "running",
              shape |-> BroadcastShape(<<idx_shape[1], idx_shape[2], m.d_model>>,
                                       <<idx_shape[2], m.d_model>>),
              trace |-> <<<<"embed", 0>>>>],
             training),
           training),
         has_targets)

\* --------------------------------------------------------- get_batch
\* The token stream: the corpus cycles through the vocabulary, as "ab"
\* repeated does; ids are in [0, vocab_size).
Data(c) == [p \in 1..c.data_len |-> (p - 1) % c.vocab_size]

\* n = int(0.9*len(data)); train_data = data[:n]; val_data = data[n:]
SplitPoint(c) == (9 * c.data_len) \div 10

train_data(c) == SubSeq(Data(c), 1, SplitPoint(c))

val_data(c) == SubSeq(Data(c), SplitPoint(c) + 1, c.data_len)

Partition(c, split) == IF split = "train" THEN train_data(c) ELSE val_data(c)

\* data[a:b] on a sequence, 0-based and half-open, clamped to the length as
\* Python slicing is.
Slice(data, a, b) == SubSeq(data, a + 1, Min(b, Len(data)))

\* The bound one too high: the last start index leaves no room for the
\* shifted window.
RandintHigh_Inclusive(c, split) ==
  Len(Partition(c, split)) - c.block_size + 1

\* The values torch.randint(high, (batch_size,)) can draw: [0, high).
\* It raises when high <= 0.
RandintHigh(c, split) == Len(Partition(c, split)) - c.block_size

StartIndices(c, split) == [1..c.batch_size -> 0..(RandintHigh(c, split) - 1)]

\* torch.stack of rows: all rows must have the same length.
StackOK(rows) == \A i \in 1..Len(rows) : Len(rows[i]) = Len(rows[1])

\* get_batch(split) with the start indices ix drawn by torch.randint.
get_batch(c, split, ix) ==
  LET data == Partition(c, split)
      x == [i \in 1..c.batch_size |-> Slice(data, ix[i], ix[i] + c.block_size)]
      y == [i \in 1..c.batch_size |->
              Slice(data, ix[i] + 1, ix[i] + c.block_size + 1)]
  IN
  IF ~(StackOK(x) /\ StackOK(y)) THEN Raised("RuntimeError", 50)
  ELSE [status |-> "returned", split |-> split, ix |-> ix, x |-> x, y |-> y]

\* The outcomes of get_batch(split): line 48 raises when the partition is
\* not longer than block_size, otherwise one batch per draw of ix.
get_batch_outcomes(c, split) ==
  IF RandintHigh(c, split) <= 0 THEN {Raised("RuntimeError", 48)}
  ELSE {get_batch(c, split, ix) : ix \in StartIndices(c, split)}

\* ------------------------------------------------------------- state
NoModel == [status |-> "none"]

NoRet == [status |-> "none"]

NoBatch == [status |-> "none", site |-> 0, iter |-> 0]

NoLoss == [site |-> 0, iter |-> 0, grad_fn |-> FALSE]

NoGrads == [set |-> FALSE, site |-> 0, iter |-> 0]

Splits == <<"train", "val">>

Stopped == {"done", "returned", "raised"}

NoReq == [unit |-> "script", split |-> "train", B |-> 0, T |-> 0,
          mask |-> FALSE, training |-> TRUE, targets |-> FALSE, N |-> 0]

\* The state when the script reaches line 257 (or a harness is about to
\* construct its module): nothing built, the histories empty.
Fresh ==
  /\ exc = NoExc
  /\ model = NoModel
  /\ ret = NoRet
  /\ mode = "none"
  /\ iter = 0
  /\ steps = <<>>
  /\ train_losses = <<>>
  /\ val_losses = <<>>
  /\ split_i = 1
  /\ k = 0
  /\ out = {}
  /\ nfwd = 0
  /\ batch = NoBatch
  /\ loss = NoLoss
  /\ grads = NoGrads
  /\ params = 0
  /\ idx = <<>>
  /\ todo = 0

\* ---------------------------------------------------- the script (Spec)
\* Hyperparameters and corpus length of a run of the script. eval_iters,
\* max_iters and eval_interval are at least 1; one row per batch.
ScriptConfigs ==
  [n_layers : 0..MaxLayers, max_iters : 1..MaxIters,
   eval_interval : 1..MaxEvalInterval, eval_iters : 1..MaxEvalIters,
   batch_size : {1}, block_size : 1..MaxBlockSize, vocab_size : {2},
   d_model : {2}, n_head : {2}, data_len : 0..MaxDataLen]

Init ==
  /\ cfg \in ScriptConfigs
  /\ req = NoReq
  /\ pc = "construct"
  /\ Fresh

\* model = Transformer(); m = model.to(device); optimizer = AdamW(...);
\* steps = []; train_losses = []; val_losses = []   (lines 257-268)
Construct ==
  /\ pc = "construct"
  /\ req.unit \in {"script", "forward", "generate"}
  /\ LET r == Transformer_init(cfg)
     IN IF r.status = "raised"
          THEN /\ pc' = "raised"
               /\ exc' = Traceback(r.exc, <<257>>)
               /\ UNCHANGED <<model, mode>>
          ELSE /\ pc' = IF req.unit = "script" THEN "loop" ELSE "call"
               /\ model' = r
               /\ mode' = "train"
               /\ UNCHANGED exc
  /\ steps' = <<>>
  /\ train_losses' = <<>>
  /\ val_losses' = <<>>
  /\ UNCHANGED <<cfg, req, ret, iter, split_i, k, out, nfwd, batch, loss,
                 grads, params, idx, todo>>

\* for iter in range(max_iters): if iter % eval_interval == 0 or
\* iter == max_iters - 1: ...   (lines 270-272). Here iter counts the
\* iterations completed, which is Python's iter inside the body.
LoopHead ==
  /\ pc = "loop"
  /\ iter < cfg.max_iters
  /\ pc' = IF iter % cfg.eval_interval = 0 \/ iter = cfg.max_iters - 1
             THEN "estimate_loss" ELSE "step_batch"
  /\ UNCHANGED <<cfg, req, exc, model, ret, loopVars, genVars>>

LoopExit ==
  /\ pc = "loop"
  /\ iter = cfg.max_iters
  /\ pc' = "done"
  /\ UNCHANGED <<cfg, req, exc, model, ret, loopVars, genVars>>

\* estimate_loss(): out = {}; model.eval(); first split, k = 0 (lines 56-60)
EstimateEnter ==
  /\ pc = "estimate_loss"
  /\ out' = {}
  /\ mode' = "eval"
  /\ split_i' = 1
  /\ k' = 0
  /\ nfwd' = 0
  /\ pc' = "est_batch"
  /\ UNCHANGED <<cfg, req, exc, model, ret, iter, steps, train_losses,
                 val_losses, batch, loss, grads, params, genVars>>

\* X, Y = get_batch(split)   (line 61)
EstGetBatch ==
  /\ pc = "est_batch"
  /\ \E r \in get_batch_outcomes(cfg, Splits[split_i]) :
       IF r.status = "raised"
         THEN /\ pc' = "raised"
              /\ exc' = Traceback(r.exc, <<273, 61>>)
              /\ UNCHANGED batch
         ELSE /\ pc' = "est_forward"
              /\ batch' = r @@ [site |-> 61, iter |-> iter]
              /\ UNCHANGED exc
  /\ UNCHANGED <<cfg, req, model, ret, mode, iter, steps, train_losses,
                 val_losses, split_i, k, out, nfwd, loss, grads, params, genVars>>

\* logits, loss = model(X, Y); losses[k] = loss.item(); and, after the last
\* k, out[split] = losses.mean() and the next split   (lines 62-64), under
\* torch.no_grad: the loss carries no graph.
EstForward ==
  /\ pc = "est_forward"
  /\ LET r == Transformer_forward(model.obj,
                <<Len(batch.x), Len(batch.x[1])>>, TRUE, mode = "train")
         last == k + 1 = cfg.eval_iters
     IN IF r.status = "raised"
          THEN /\ pc' = "raised"
               /\ exc' = Traceback(r.exc, <<273, 62>>)
               /\ UNCHANGED <<loss, nfwd, k, out, split_i>>
          ELSE /\ loss' = [site |-> 62, iter |-> iter, grad_fn |-> FALSE]
               /\ nfwd' = nfwd + 1
               /\ k' = IF last THEN 0 ELSE k + 1
               /\ out' = IF last THEN out \cup {Splits[split_i]} ELSE out
               /\ split_i' = IF last /\ split_i < Len(Splits)
                               THEN split_i + 1 ELSE split_i
               /\ pc' = IF last /\ split_i = Len(Splits)
                          THEN "est_train" ELSE "est_batch"
               /\ UNCHANGED exc
  /\ UNCHANGED <<cfg, req, model, ret, mode, iter, steps, train_losses,
                 val_losses, batch, grads, params, genVars>>

\* estimate_loss returning without model.train().
EstTrain_NoRestore ==
  /\ pc = "est_train"
  /\ pc' = "record"
  /\ UNCHANGED <<cfg, req, exc, model, ret, mode, iter, steps, train_losses,
                 val_losses, split_i, k, out, nfwd, batch, loss, grads,
                 params, genVars>>

\* model.train(); return out   (lines 65-66)
EstTrain ==
  /\ pc = "est_train"
  /\ mode' = "train"
  /\ pc' = "record"
  /\ UNCHANGED <<cfg, req, exc, model, ret, iter, steps, train_losses,
                 val_losses, split_i, k, out, nfwd, batch, loss, grads,
                 params, genVars>>

\* print(...); steps.append(iter); train_losses.append(losses['train']);
\* val_losses.append(losses['val'])   (lines 274-278)
Record ==
  /\ pc = "record"
  /\ IF {"train", "val"} \subseteq out
       THEN /\ steps' = Append(steps, iter)
            /\ train_losses' = Append(train_losses, <<"train", iter>>)
            /\ val_losses' = Append(val_losses, <<"val", iter>>)
            /\ pc' = "step_batch"
            /\ UNCHANGED exc
       ELSE /\ pc' = "raised"
            /\ exc' = Traceback(Exc("KeyError", 274), <<>>)
            /\ UNCHANGED <<steps, train_losses, val_losses>>
  /\ UNCHANGED <<cfg, req, model, ret, mode, iter, split_i, k, out, nfwd,
                 batch, loss, grads, params, genVars>>

\* xb, yb = get_batch('train')   (line 280)
StepGetBatch ==
  /\ pc = "step_batch"
  /\ \E r \in get_batch_outcomes(cfg, "train") :
       IF r.status = "raised"
         THEN /\ pc' = "raised"
              /\ exc' = Traceback(r.exc, <<280>>)
              /\ UNCHANGED batch
         ELSE /\ pc' = "step_forward"
              /\ batch' = r @@ [site |-> 280, iter |-> iter]
              /\ UNCHANGED exc
  /\ UNCHANGED <<cfg, req, model, ret, mode, iter, steps, train_losses,
                 val_losses, split_i, k, out, nfwd, loss, grads, params, genVars>>

\* logits, loss = model(xb, yb)   (line 281)
StepForward ==
  /\ pc = "step_forward"
  /\ LET r == Transformer_forward(model.obj,
                <<Len(batch.x), Len(batch.x[1])>>, TRUE, mode = "train")
     IN IF r.status = "raised"
          THEN /\ pc' = "raised"
               /\ exc' = Traceback(r.exc, <<281>>)
               /\ UNCHANGED loss
          ELSE /\ pc' = "step_zero_grad"
               /\ loss' = [site |-> batch.site, iter |-> batch.iter,
                           grad_fn |-> TRUE]
               /\ UNCHANGED exc
  /\ UNCHANGED <<cfg, req, model, ret, mode, iter, steps, train_losses,
                 val_losses, split_i, k, out, nfwd, batch, grads, params, genVars>>

\* The step without clearing the gradients of the step before.
StepZeroGrad_Keep ==
  /\ pc = "step_zero_grad"
  /\ pc' = "step_backward"
  /\ UNCHANGED <<cfg, req, exc, model, ret, mode, iter, steps, train_losses,
                 val_losses, split_i, k, out, nfwd, batch, loss, grads, params,
                 genVars>>

\* optimizer.zero_grad(set_to_none=True)   (line 282)
StepZeroGrad ==
  /\ pc = "step_zero_grad"
  /\ grads' = NoGrads
  /\ pc' = "step_backward"
  /\ UNCHANGED <<cfg, req, exc, model, ret, mode, iter, steps, train_losses,
                 val_losses, split_i, k, out, nfwd, batch, loss, params, genVars>>

\* loss.backward()   (line 283): the gradients of this loss.
StepBackward ==
  /\ pc = "step_backward"
  /\ IF loss.grad_fn
       THEN /\ grads' = [set |-> TRUE, site |-> loss.site, iter |-> loss.iter]
            /\ pc' = "step_update"
            /\ UNCHANGED exc
       ELSE /\ pc' = "raised"
            /\ exc' = Traceback(Exc("RuntimeError", 283), <<>>)
            /\ UNCHANGED grads
  /\ UNCHANGED <<cfg, req, model, ret, mode, iter, steps, train_losses,
                 val_losses, split_i, k, out, nfwd, batch, loss, params, genVars>>

\* optimizer.step()   (line 284), then the next iteration. params counts the
\* updates applied; parameters without a gradient are skipped.
StepUpdate ==
  /\ pc = "step_update"
  /\ params' = IF grads.set THEN params + 1 ELSE params
  /\ iter' = iter + 1
  /\ pc' = "loop"
  /\ UNCHANGED <<cfg, req, exc, model, ret, mode, steps, train_losses,
                 val_losses, split_i, k, out, nfwd, batch, loss, grads, genVars>>

Next ==
  \/ Construct
  \/ LoopHead
  \/ LoopExit
  \/ EstimateEnter
  \/ EstGetBatch
  \/ EstForward
  \/ EstTrain
  \/ Record
  \/ StepGetBatch
  \/ StepForward
  \/ StepZeroGrad
  \/ StepBackward
  \/ StepUpdate

Spec == Init /\ [][Next]_vars

\* --------------------------------------------- get_batch (SpecBatch)
BaseConfig ==
  [n_layers |-> 0, max_iters |-> 1, eval_interval |-> 1, eval_iters |-> 1,
   batch_size |-> 1, block_size |-> 1, vocab_size |-> 2, d_model |-> 2,
   n_head |-> 2, data_len |-> 0]

BatchConfigs ==
  {[BaseConfig EXCEPT !.data_len = n, !.vocab_size = v, !.block_size = b,
                      !.batch_size = r] :
     n \in 0..MaxDataLen, v \in 2..MaxVocab, b \in 1..MaxBlockSize,
     r \in 1..MaxBatchSize}

InitBatch ==
  /\ cfg \in BatchConfigs
  /\ req \in {[NoReq EXCEPT !.unit = "get_batch", !.split = sp] :
                sp \in {"train", "val"}}
  /\ pc = "call"
  /\ Fresh

\* x, y = get_batch(req.split)
CallGetBatch ==
  /\ pc = "call"
  /\ req.unit = "get_batch"
  /\ \E r \in get_batch_outcomes(cfg, req.split) :
       /\ ret' = r
       /\ pc' = r.status
       /\ exc' = IF r.status = "raised" THEN Traceback(r.exc, <<>>) ELSE exc
  /\ UNCHANGED <<cfg, req, model, loopVars, genVars>>

NextBatch == CallGetBatch

SpecBatch == InitBatch /\ [][NextBatch]_vars

\* ----------------------------------------- attention (SpecAttention)
\* d_model, n_head (at most d_model, so that head_size >= 1) and block_size.
AttentionConfigs ==
  {c \in {[BaseConfig EXCEPT !.d_model = d, !.n_head = h, !.block_size = b] :
            d \in 1..MaxDModel, h \in 1..MaxHead, b \in 1..MaxBlockSize} :
     c.n_head <= c.d_model}

\* One call: a head or the whole multi-head attention on an input of shape
\* (B, T, d_model), with or without the causal flag, in either mode.
AttentionRequests ==
  {[NoReq EXCEPT !.unit = u, !.B = b, !.T = t, !.mask = m, !.training = tr] :
     u \in {"head", "mha"}, b \in 1..MaxBatchSize, t \in 1..(MaxBlockSize + 1),
     m \in BOOLEAN, tr \in BOOLEAN}

InitAttention ==
  /\ cfg \in AttentionConfigs
  /\ req \in AttentionRequests
  /\ pc = "construct"
  /\ Fresh

\* MultiHeadAttention(d_model=..., n_head=..., dropout=..., block_size=...)
ConstructMHA ==
  /\ pc = "construct"
  /\ req.unit \in {"head", "mha"}
  /\ LET r == MultiHeadAttention_init(
                [d_model |-> cfg.d_model, n_head |-> cfg.n_head,
                 dropout |-> "0.2", block_size |-> cfg.block_size], 114)
     IN /\ model' = IF r.status = "raised" THEN model ELSE r
        /\ pc' = IF r.status = "raised" THEN "raised" ELSE "call"
        /\ exc' = IF r.status = "raised" THEN Traceback(r.exc, <<>>) ELSE exc
  /\ UNCHANGED <<cfg, req, ret, loopVars, genVars>>

\* self.heads[0](x, mask=req.mask)
CallHead ==
  /\ pc = "call"
  /\ req.unit = "head"
  /\ LET r == AttentionHead_forward(model.obj.heads[1],
                <<req.B, req.T, cfg.d_model>>, req.mask, req.training)
     IN /\ ret' = r
        /\ pc' = r.status
        /\ exc' = IF r.status = "raised" THEN Traceback(r.exc, <<>>) ELSE exc
  /\ UNCHANGED <<cfg, req, model, loopVars, genVars>>

\* mha(x, mask=req.mask)
CallMHA ==
  /\ pc = "call"
  /\ req.unit = "mha"
  /\ LET r == MultiHeadAttention_forward(model.obj,
                <<req.B, req.T, cfg.d_model>>, req.mask, req.training)
     IN /\ ret' = r
        /\ pc' = r.status
        /\ exc' = IF r.status = "raised" THEN Traceback(r.exc, <<>>) ELSE exc
  /\ UNCHANGED <<cfg, req, model, loopVars, genVars>>

NextAttention == ConstructMHA \/ CallHead \/ CallMHA

SpecAttention == InitAttention /\ [][NextAttention]_vars

\* ------------------------------- forward and generate (SpecModel)
ModelConfigs ==
  {[BaseConfig EXCEPT !.n_layers = n, !.block_size = b, !.vocab_size = v] :
     n \in 0..MaxLayers, b \in 1..MaxBlockSize, v \in 2..MaxVocab}

\* model(idx) or model(idx, targets) on token ids of shape (B, T).
ForwardRequests ==
  {[NoReq EXCEPT !.unit = "forward", !.B = b, !.T = t, !.targets = tg] :
     b \in 1..MaxBatchSize, t \in 1..(MaxBlockSize + 1), tg \in BOOLEAN}

\* model.generate(seed, N) on a seed of one row of T tokens.
GenerateRequests ==
  {[NoReq EXCEPT !.unit = "generate", !.B = 1, !.T = t, !.N = n] :
     t \in 1..MaxSeedLen, n \in 0..MaxNewTokens}

Seed(c, L) == [p \in 1..L |-> (p - 1) % c.vocab_size]

InitModel ==
  /\ cfg \in ModelConfigs
  /\ req \in ForwardRequests \cup GenerateRequests
  /\ pc = "construct"
  /\ Fresh

CallForward ==
  /\ pc = "call"
  /\ req.unit = "forward"
  /\ LET r == Transformer_forward(model.obj, <<req.B, req.T>>, req.targets,
                mode = "train")
     IN /\ ret' = r
        /\ pc' = r.status
        /\ exc' = IF r.status = "raised" THEN Traceback(r.exc, <<>>) ELSE exc
  /\ UNCHANGED <<cfg, req, model, loopVars, genVars>>

\* generate(idx, max_new_tokens): idx is the seed, the loop has
\* max_new_tokens iterations to run   (lines 246-247)
GenerateEnter ==
  /\ pc = "call"
  /\ req.unit = "generate"
  /\ idx' = Seed(cfg, req.T)
  /\ todo' = req.N
  /\ pc' = "generate"
  /\ UNCHANGED <<cfg, req, exc, model, ret, loopVars>>

\* idx[:, -block_size:] of the one row.
LastTokens(row, n) == SubSeq(row, Max(1, Len(row) - n + 1), Len(row))

\* logits[:, -1, :], softmax and multinomial (lines 250-252) on logits of
\* this shape: the ids that can be drawn, or the exception.
SampleNext(logits) ==
  IF Len(logits) < 3 \/ logits[2] = 0 THEN Raised("IndexError", 250)
  ELSE IF Len(logits) > 3 THEN Raised("RuntimeError", 252)
  ELSE [status |-> "returned", ids |-> 0..(logits[Len(logits)] - 1)]

\* One iteration of the loop of generate with the forward result r   (lines
\* 248-253): the rows idx can become, or the exception.
GenerateNext(row, r) ==
  IF r.status = "raised" THEN {r}
  ELSE IF SampleNext(r.logits).status = "raised" THEN {SampleNext(r.logits)}
  ELSE {[status |-> "returned", idx |-> Append(row, t)] :
          t \in SampleNext(r.logits).ids}

GenerateStep ==
  /\ pc = "generate"
  /\ todo > 0
  /\ LET idx_cond == LastTokens(idx, cfg.block_size)
         r == Transformer_forward(model.obj, <<1, Len(idx_cond)>>, FALSE,
                mode = "train")
     IN \E n \in GenerateNext(idx, r) :
          IF n.status = "raised"
            THEN /\ pc' = "raised"
                 /\ exc' = Traceback(n.exc, <<249>>)
                 /\ UNCHANGED <<idx, todo, ret>>
            ELSE /\ idx' = n.idx
                 /\ todo' = todo - 1
                 /\ ret' = [status |-> "running", given |-> idx_cond,
                            before |-> idx]
                 /\ UNCHANGED <<pc, exc>>
  /\ UNCHANGED <<cfg, req, model, loopVars>>

\* return idx   (line 255)
GenerateReturn ==
  /\ pc = "generate"
  /\ todo = 0
  /\ ret' = [status |-> "returned", idx |-> idx]
  /\ pc' = "returned"
  /\ UNCHANGED <<cfg, req, exc, model, loopVars, genVars>>

NextModel ==
  \/ Construct
  \/ CallForward
  \/ GenerateEnter
  \/ GenerateStep
  \/ GenerateReturn

SpecModel == InitModel /\ [][NextModel]_vars

\* ====================================================== the claims
Range(f) == {f[i] : i \in DOMAIN f}

\* Both partitions are longer than block_size, so get_batch can sample.
DataSuffices ==
  /\ Len(train_data(cfg)) > cfg.block_size
  /\ Len(val_data(cfg)) > cfg.block_size

StepPcs ==
  {"step_batch", "step_forward", "step_zero_grad", "step_backward", "step_update"}

EstimatePcs == {"est_batch", "est_forward", "est_train"}

\* The records the loop should hold when it ends: floor(max_iters /
\* eval_interval) + 1 of them, give or take one, their steps increasing and
\* the last one max_iters - 1.
RecordsAsClaimed ==
  LET expected == (cfg.max_iters \div cfg.eval_interval) + 1
  IN /\ Len(steps) \in (expected - 1)..(expected + 1)
     /\ Len(train_losses) = Len(steps)
     /\ Len(val_losses) = Len(steps)
     /\ \A i \in 1..(Len(steps) - 1) : steps[i] < steps[i + 1]
     /\ Len(steps) >= 1
     /\ steps[Len(steps)] = cfg.max_iters - 1

\* C1: for every max_iters >= 1 and eval_interval >= 1 (and a corpus the
\* sampler can draw from) the script's run ends with the training loop
\* finished after exactly max_iters steps, holding floor(max_iters /
\* eval_interval) + 1 evaluation records within one, with strictly
\* increasing steps and the last record for step max_iters - 1.
C1_LoopTerminatesWithRecords ==
  (req.unit = "script" /\ pc \in Stopped /\ DataSuffices) =>
    /\ pc = "done"
    /\ iter = cfg.max_iters
    /\ RecordsAsClaimed

\* C2: every forward pass inside estimate_loss runs with the model in
\* evaluation mode, and every operation of a training step (sampling,
\* forward, zero_grad, backward, optimizer update) runs with the model in
\* training mode, whatever the number of steps and wherever the evaluation
\* blocks fall.
C2_ModeAtEveryPass ==
  /\ pc \in {"est_batch", "est_forward"} => mode = "eval"
  /\ pc \in StepPcs \cup {"record", "loop", "done"} => mode = "train"

\* A training step's forward pass that follows two evaluation blocks, the
\* second in the same iteration.
C2_Witness ==
  /\ pc = "step_forward"
  /\ mode = "train"
  /\ Len(steps) >= 2
  /\ steps[Len(steps)] = iter

\* C3: when a failure of batch sampling or of the forward pass leaves
\* estimate_loss (called at line 273), the model is back in training mode.
C3_ToggleExceptionSafe ==
  (pc = "raised" /\ 273 \in Range(exc.via)) => mode = "train"

\* C10: each training step samples its batch, computes the loss of that
\* batch, clears the gradients, backpropagates that loss and applies one
\* update, in this order; the number of updates applied equals the number of
\* steps completed at every point of the loop, so an evaluation block (which
\* makes 2 * eval_iters forward passes) changes no parameter, and after the
\* loop exactly max_iters updates have been applied.
C10_StepOrderAndFrame ==
  /\ pc = "step_forward" =>
       batch.status = "returned" /\ batch.split = "train"
       /\ batch.site = 280 /\ batch.iter = iter
  /\ pc \in {"step_zero_grad", "step_backward", "step_update"} =>
       loss = [site |-> 280, iter |-> iter, grad_fn |-> TRUE]
  /\ pc = "step_backward" => grads = NoGrads
  /\ pc = "step_update" => grads = [set |-> TRUE, site |-> 280, iter |-> iter]
  /\ pc \in StepPcs \cup EstimatePcs \cup {"loop", "estimate_loss", "record", "done"} =>
       params = iter
  /\ pc \in {"est_train", "record"} => nfwd = 2 * cfg.eval_iters
  /\ pc = "done" => params = cfg.max_iters

\* The loop finished after several steps and evaluation blocks.
C10_Witness ==
  /\ pc = "done"
  /\ params >= 3
  /\ Len(steps) >= 2
  /\ Len(steps) < cfg.max_iters

\* C4: for a partition longer than block_size, get_batch returns
\* batch_size rows; row i starts at s_i in [0, len - block_size), so that
\* s_i + block_size < len; inputs[i] is the partition at s_i .. s_i +
\* block_size - 1 and targets[i][t] the partition at s_i + t + 1; both
\* tensors have block_size columns and nothing is read past the end.
C4_BatchWindows ==
  LET data == Partition(cfg, req.split)
  IN (req.unit = "get_batch" /\ pc \in Stopped /\ Len(data) > cfg.block_size) =>
       /\ pc = "returned"
       /\ Len(ret.x) = cfg.batch_size
       /\ Len(ret.y) = cfg.batch_size
       /\ \A i \in 1..cfg.batch_size :
            /\ ret.ix[i] \in 0..(Len(data) - cfg.block_size - 1)
            /\ ret.ix[i] + cfg.block_size < Len(data)
            /\ Len(ret.x[i]) = cfg.block_size
            /\ Len(ret.y[i]) = cfg.block_size
            /\ \A t \in 0..(cfg.block_size - 1) :
                 /\ ret.x[i][t + 1] = data[ret.ix[i] + t + 1]
                 /\ ret.y[i][t + 1] = data[ret.ix[i] + t + 2]
                 /\ t + 1 < cfg.block_size => ret.y[i][t + 1] = ret.x[i][t + 2]

\* A batch of two rows of two tokens, one of them the last window of the
\* partition, from a stream of three distinct tokens.
C4_Witness ==
  /\ req.unit = "get_batch"
  /\ pc = "returned"
  /\ cfg.batch_size = 2
  /\ cfg.block_size = 2
  /\ cfg.vocab_size = 3
  /\ ret.ix[1] = Len(Partition(cfg, req.split)) - cfg.block_size - 1
  /\ ret.ix[2] = 0

\* C5: generate on a seed of L tokens asking for N new ones runs N
\* iterations, each giving the forward pass the last min(length,
\* block_size) tokens and appending one id in [0, vocab_size), and returns
\* a sequence of L + N tokens that starts with the seed.
C5_GenerateLength ==
  /\ (req.unit = "generate" /\ pc \in Stopped) =>
       /\ pc = "returned"
       /\ Len(ret.idx) = req.T + req.N
       /\ SubSeq(ret.idx, 1, req.T) = Seed(cfg, req.T)
       /\ \A p \in (req.T + 1)..Len(ret.idx) :
            ret.idx[p] \in 0..(cfg.vocab_size - 1)
  /\ (req.unit = "generate" /\ pc = "generate" /\ ret.status = "running") =>
       /\ Len(ret.given) = Min(Len(ret.before), cfg.block_size)
       /\ Len(idx) = Len(ret.before) + 1

\* C6: on an input of shape (B, T, d_model) with 1 <= T <= block_size, a
\* head returns shape (B, T, head_size) and multi-head attention returns
\* shape (B, T, d_model).
C6_OutputShapes ==
  (req.unit \in {"head", "mha"} /\ pc \in Stopped /\ model.status = "returned"
     /\ req.T <= cfg.block_size) =>
    /\ pc = "returned"
    /\ ret.shape = <<req.B, req.T,
                     IF req.unit = "head" THEN model.obj.head_size
                     ELSE cfg.d_model>>

\* C7: in a head called with the causal flag on T <= block_size positions,
\* the scores are T by T in their last two dimensions, every entry whose key
\* position is after its query position is -inf before the softmax and
\* exactly zero after it (and after dropout), and every query position's own
\* entry is unmasked; without the flag no entry is masked.
C7_CausalMask ==
  (req.unit = "head" /\ pc = "returned" /\ req.T <= cfg.block_size) =>
    LET n == Len(ret.weights)
    IN /\ ret.weights[n] = req.T
       /\ ret.weights[n - 1] = req.T
       /\ DOMAIN ret.probs = Indices(ret.weights)
       /\ IF req.mask
            THEN \A ix \in DOMAIN ret.probs :
                   /\ ix[n] > ix[n - 1] =>
                        /\ ix \in ret.masked
                        /\ ret.probs[ix] = "zero"
                        /\ ret.dropped[ix] = "zero"
                   /\ ix[n] = ix[n - 1] =>
                        /\ ix \notin ret.masked
                        /\ ret.probs[ix] = "pos"
            ELSE /\ ret.masked = {}
                 /\ \A ix \in DOMAIN ret.probs : ret.probs[ix] = "pos"

\* A causal call in training mode on two positions, with masked entries.
C7_Witness ==
  /\ req.unit = "head"
  /\ pc = "returned"
  /\ req.mask
  /\ req.training
  /\ req.T = 2
  /\ cfg.block_size = 2
  /\ ret.masked # {}

\* C8: with d_model not divisible by n_head, constructing multi-head
\* attention fails: no object is produced.
C8_NonDivisibleRejected ==
  (req.unit \in {"head", "mha"} /\ pc # "construct"
     /\ cfg.d_model % cfg.n_head # 0) =>
    /\ model.status # "returned"
    /\ exc.type # "none"

\* The stages a forward pass should run on a model of n layers.
ExpectedStages(n) ==
  <<<<"embed", 0>>>>
    \o [i \in 1..n |-> <<"enc_layer", i>>]
    \o [i \in 1..n |-> <<"dec_layer", i>>]
    \o <<<<"norm_final", 0>>, <<"linear_final", 0>>>>

\* C9: a forward pass on ids of shape (B, T), T <= block_size, completes
\* after the embedding, every encoder layer in stack order, every decoder
\* layer in stack order, the final norm and the projection, in this order,
\* and returns a loss exactly when targets were passed.
C9_ForwardOrder ==
  (req.unit = "forward" /\ pc \in Stopped /\ req.T <= cfg.block_size) =>
    /\ pc = "returned"
    /\ SubSeq(ret.trace, 1, Len(ExpectedStages(cfg.n_layers)))
         = ExpectedStages(cfg.n_layers)
    /\ (ret.loss = None) <=> ~req.targets
    /\ (ret.loss = "scalar") <=> req.targets

====
